---- MODULE Spec2Model ----
(***************************************************************************)
(* TechGear support chatbot: the LangGraph workflow (graph_workflow.py),   *)
(* the RAG pipeline (rag_pipeline.py) and the /chat boundary (main.py).    *)
(*                                                                         *)
(* Text is modelled as a sequence of one-character strings, so that        *)
(* lower(), strip(), "in" (substring) and "\n".join act on characters.     *)
(* Python's None is the string "None".  Relevance scores are hundredths    *)
(* (0.4 is 40).                                                            *)
(***************************************************************************)
EXTENDS Naturals, Sequences, FiniteSets

None == "None"

-----------------------------------------------------------------------------
(* Text helpers: str.lower, str.strip, substring test, str.join *)

UpperCase ==
    << "A","B","C","D","E","F","G","H","I","J","K","L","M",
       "N","O","P","Q","R","S","T","U","V","W","X","Y","Z" >>
LowerCase ==
    << "a","b","c","d","e","f","g","h","i","j","k","l","m",
       "n","o","p","q","r","s","t","u","v","w","x","y","z" >>
Whitespace == { " ", "\n", "\t", "\r" }

LowerChar(c) ==
    IF \E i \in DOMAIN UpperCase : UpperCase[i] = c
    THEN LowerCase[CHOOSE i \in DOMAIN UpperCase : UpperCase[i] = c]
    ELSE c

\* str.lower()
Lower(s) == [i \in DOMAIN s |-> LowerChar(s[i])]

\* str.strip(): drop leading and trailing whitespace
Strip(s) ==
    LET keep == { i \in DOMAIN s : s[i] \notin Whitespace }
    IN  IF keep = {} THEN << >>
        ELSE LET lo == CHOOSE i \in keep : \A j \in keep : i <= j
                 hi == CHOOSE i \in keep : \A j \in keep : i >= j
             IN  SubSeq(s, lo, hi)

\* Python's  k in s  for strings
Contains(s, k) ==
    \E i \in 0 .. Len(s) : i + Len(k) <= Len(s) /\ SubSeq(s, i + 1, i + Len(k)) = k

\* sep.join(lines)
RECURSIVE Join(_, _)
Join(lines, sep) ==
    IF lines = << >> THEN << >>
    ELSE IF Len(lines) = 1 THEN lines[1]
    ELSE lines[1] \o sep \o Join(Tail(lines), sep)

-----------------------------------------------------------------------------
(* Literals of the source *)

kw_lawsuit ==
    << "l","a","w","s","u","i","t" >>
kw_legal ==
    << "l","e","g","a","l" >>
kw_sue ==
    << "s","u","e" >>
kw_court ==
    << "c","o","u","r","t" >>
kw_lawyer ==
    << "l","a","w","y","e","r" >>
kw_broken_screen ==
    << "b","r","o","k","e","n"," ","s","c","r","e","e","n" >>
kw_repair_my ==
    << "r","e","p","a","i","r"," ","m","y" >>
kw_fix_my_device ==
    << "f","i","x"," ","m","y"," ","d","e","v","i","c","e" >>
kw_payment_failed ==
    << "p","a","y","m","e","n","t"," ","f","a","i","l","e","d" >>
kw_payment_error ==
    << "p","a","y","m","e","n","t"," ","e","r","r","o","r" >>
kw_charged_twice ==
    << "c","h","a","r","g","e","d"," ","t","w","i","c","e" >>
kw_spam ==
    << "s","p","a","m" >>
kw_abuse ==
    << "a","b","u","s","e" >>
kw_hate ==
    << "h","a","t","e" >>
kw_scam ==
    << "s","c","a","m" >>

products ==
    << "p","r","o","d","u","c","t","s" >>
returns ==
    << "r","e","t","u","r","n","s" >>
general ==
    << "g","e","n","e","r","a","l" >>
escalate ==
    << "e","s","c","a","l","a","t","e" >>

EscalationMessage ==
    << "I","'","m"," ","n","o","t"," ","a","b","l","e"," ","t","o"," ","h","a",
       "n","d","l","e"," ","t","h","i","s"," ","r","e","q","u","e","s","t",".",
       " ","P","l","e","a","s","e"," ","c","o","n","t","a","c","t"," ","s","u",
       "p","p","o","r","t","@","t","e","c","h","g","e","a","r",".","c","o","m",
       " ","o","r"," ","c","a","l","l"," ","c","u","s","t","o","m","e","r"," ",
       "s","u","p","p","o","r","t"," ","f","o","r"," ","f","u","r","t","h","e",
       "r"," ","a","s","s","i","s","t","a","n","c","e","." >>
FallbackMessage ==
    << "I"," ","d","o","n","'","t"," ","h","a","v","e"," ","s","p","e","c","i",
       "f","i","c"," ","i","n","f","o","r","m","a","t","i","o","n"," ","a","b",
       "o","u","t"," ","t","h","a","t"," ","i","n"," ","T","e","c","h","G","e",
       "a","r","'","s"," ","k","n","o","w","l","e","d","g","e"," ","b","a","s",
       "e","."," ","P","l","e","a","s","e"," ","c","o","n","t","a","c","t"," ",
       "s","u","p","p","o","r","t","@","t","e","c","h","g","e","a","r",".","c",
       "o","m"," ","f","o","r"," ","m","o","r","e"," ","d","e","t","a","i","l",
       "s","." >>

QueryBrokenLaptop ==
    << "M","y"," ","l","a","p","t","o","p"," ","s","c","r","e","e","n"," ","i",
       "s"," ","b","r","o","k","e","n",","," ","w","h","a","t"," ","s","h","o",
       "u","l","d"," ","I"," ","d","o","?" >>
QueryReturnPolicy ==
    << "W","h","a","t"," ","i","s"," ","y","o","u","r"," ","r","e","t","u","r",
       "n"," ","p","o","l","i","c","y","?" >>
QuerySue ==
    << "I"," ","w","i","l","l"," ","S","U","E"," ","y","o","u" >>
QueryBrokenScreen ==
    << "M","y"," ","p","h","o","n","e"," ","h","a","s"," ","a"," ","B","r","o",
       "k","e","n"," ","S","c","r","e","e","n" >>
QueryCourtesy ==
    << "c","o","u","r","t","e","s","y"," ","c","a","l","l","?" >>


\* Mutant: "broken screen" entered as the two keywords "broken", "screen"
out_of_scope_keywords_Split ==
    << kw_lawsuit, kw_legal, kw_sue, kw_court, kw_lawyer,
       << "b","r","o","k","e","n" >>, << "s","c","r","e","e","n" >>,
       kw_repair_my, kw_fix_my_device,
       kw_payment_failed, kw_payment_error, kw_charged_twice,
       kw_spam, kw_abuse, kw_hate, kw_scam >>

\* graph_workflow.py:54-59
out_of_scope_keywords ==
    << kw_lawsuit, kw_legal, kw_sue, kw_court, kw_lawyer,
       kw_broken_screen, kw_repair_my, kw_fix_my_device,
       kw_payment_failed, kw_payment_error, kw_charged_twice,
       kw_spam, kw_abuse, kw_hate, kw_scam >>

\* graph_workflow.py:90
valid_categories == << products, returns, general, escalate >>

\* rag_pipeline.py:28, in hundredths
RELEVANCE_THRESHOLD == 40
\* rag_pipeline.py:172, k=3
TopK == 3
\* graph_workflow.py:207, history[-4:]
HistoryWindow == 4
\* main.py:229, request.history[-4:]
DirectWindow == 4

-----------------------------------------------------------------------------
(* Bounded inputs and environment answers *)

MaxHist == 5

Threads == { "t1", "t2" }

Queries ==
    { QueryBrokenLaptop, QueryReturnPolicy, QuerySue, QueryBrokenScreen,
      QueryCourtesy, << >> }

Senders == << "user", "bot", "agent" >>
Digits == << "1","2","3","4","5","6","7","8","9" >>
\* The first turn holds a risk keyword
TurnText(i) == IF i = 1 THEN kw_sue ELSE << "t", Digits[i] >>

\* Caller histories: n turns with pairwise different texts, the senders
\* rotating through user / bot / some other sender from any starting point.
\* The empty history stands for both None and [] (both are falsy at
\* graph_workflow.py:205 and main.py:182).
Histories ==
    { [i \in 1 .. n |-> [sender |-> Senders[((i + r) % 3) + 1], text |-> TurnText(i)]] :
        n \in 0 .. MaxHist, r \in 0 .. 2 }

\* result.content of the classification model
ClassifierContents ==
    { products,
      << " ","R","e","t","u","r","n","s","\n" >>,
      << "G","E","N","E","R","A","L" >>,
      escalate,
      << "b","i","l","l","i","n","g" >>,
      << >> }

\* result.content of the answer model
AnswerContents == { << "o","k" >>, << >> }

Chunks == { << "c","1" >>, << "c","2" >>, << "c","3" >> }
Scores == { 0, 39, 40, 41 }

\* What similarity_search_with_relevance_scores(question, k=3) can return:
\* at most k (document, score) pairs, best first, no chunk twice.
SearchResults ==
    UNION { { s \in [1 .. n -> [page_content : Chunks, score : Scores]] :
                \A i, j \in 1 .. n :
                    i < j => /\ s[i].score >= s[j].score
                             /\ s[i].page_content # s[j].page_content } :
            n \in 0 .. TopK }

\* A caller of run_chatbot_flow is explored with fewer inputs and answers:
\* a query with a risk keyword and one without, no history or one turn, a
\* valid category of either route, one candidate on either side of the
\* threshold, one answer text.
ConcQueries == { QuerySue, QueryReturnPolicy }
ConcHistories ==
    { h \in Histories :
        Len(h) <= 1 /\ \A i \in DOMAIN h : h[i].sender = "user" }
ConcClassifierContents == { products, escalate }
ConcSearchResults ==
    { s \in SearchResults :
        /\ Len(s) = 1
        /\ s[1].page_content = << "c","1" >>
        /\ s[1].score \in { 39, 40 } }
ConcAnswerContents == { << "o","k" >> }

-----------------------------------------------------------------------------
(* State *)

VARIABLES
    proc,                   \* which program runs and how far its start-up got
    _rag_pipeline,          \* rag_pipeline.py:237, the global instance
    _workflow,              \* graph_workflow.py:232, the global instance
    threads,                \* the threads of control that exist: one, the
                            \* server's event loop (the handlers of main.py
                            \* never await) or the script's main thread;
                            \* several in a caller that has threads
    pc,                     \* where each thread is
    entry,                  \* what the thread is serving: startup, chat,
                            \* chat_direct, demo, thread
    query, history,         \* the arguments of run_chatbot_flow
    state,                  \* the GraphState of the invocation
    cls_content,            \* classify_query: result.content
    route,                  \* the node route_query named
    docs_with_scores,       \* retrieve_with_scores: the search result
    has_reliable_context,   \* retrieve_with_scores: the gate's verdict
    prompt,                 \* answer_with_rag: context and enhanced_question
    answer,                 \* what answer_with_rag returned
    result,                 \* what run returned
    exc,                    \* the exception in flight or handled
    http,                   \* what the /chat or /chat/direct handler sent
    calls,                  \* external calls made for this invocation
    heap,                   \* the RAGPipeline objects, named by their maker
    index_builds,           \* how often create_vector_store built the index
    workflow,               \* graph_workflow.py:261, get_workflow's result
    setup_self,             \* the self of setup_rag_chain
    pipeline,               \* rag_pipeline.py:266, get_rag_pipeline's result
    oracle,                 \* the replies the collaborators gave, by input
    returned,               \* the first result of run, by query and history
    env,                    \* whether the collaborators repeat their answers
    rag_question,           \* rag_pipeline.py:255, answer_with_rag's question
    rag_history,            \* rag_pipeline.py:255, answer_with_rag's history
    nodes,                  \* the nodes the graph has run, in order
    gen_content,            \* answer_with_rag: result.content
    setup_calls             \* the calls setup_rag_chain has made, in order

vars ==
    << proc, _rag_pipeline, _workflow, threads, pc, entry, query, history,
       state, cls_content, route, docs_with_scores, has_reliable_context,
       prompt, answer, result, exc, http, calls, heap, index_builds, workflow,
       setup_self, pipeline, oracle, returned, env, rag_question, rag_history,
       nodes, gen_content, setup_calls >>

NoneObj == [is_none |-> TRUE]
NoState == [query |-> << >>, history |-> << >>, category |-> << >>, response |-> << >>]
NoCalls == [classify_llm |-> 0, search |-> 0, generate_llm |-> 0]
NoPrompt == [context |-> << >>, question |-> << >>]
NoOracle == [classify |-> {}, search |-> {}, generate |-> {}]

\* The state after the modules are imported: the globals are None
\* (rag_pipeline.py:237, graph_workflow.py:232) and no invocation is under way
Start ==
    /\ _rag_pipeline = None
    /\ _workflow = None
    /\ pc = [t \in Threads |-> "idle"]
    /\ entry = [t \in Threads |-> None]
    /\ query = [t \in Threads |-> << >>]
    /\ history = [t \in Threads |-> << >>]
    /\ state = [t \in Threads |-> NoState]
    /\ cls_content = [t \in Threads |-> << >>]
    /\ route = [t \in Threads |-> None]
    /\ docs_with_scores = [t \in Threads |-> << >>]
    /\ has_reliable_context = [t \in Threads |-> FALSE]
    /\ prompt = [t \in Threads |-> NoPrompt]
    /\ answer = [t \in Threads |-> << >>]
    /\ result = [t \in Threads |-> NoneObj]
    /\ exc = [t \in Threads |-> NoneObj]
    /\ http = [t \in Threads |-> NoneObj]
    /\ calls = [t \in Threads |-> NoCalls]
    /\ heap = [o \in Threads |-> NoneObj]
    /\ index_builds = 0
    /\ workflow = [t \in Threads |-> None]
    /\ setup_self = [t \in Threads |-> None]
    /\ pipeline = [t \in Threads |-> None]
    /\ oracle = NoOracle
    /\ returned = {}
    /\ rag_question = [t \in Threads |-> << >>]
    /\ rag_history = [t \in Threads |-> << >>]
    /\ nodes = [t \in Threads |-> << >>]
    /\ gen_content = [t \in Threads |-> << >>]
    /\ setup_calls = [t \in Threads |-> << >>]

\* main.py served by uvicorn, or the script demo_queries.py: one thread
Init ==
    /\ proc \in { "main:starting", "demo_queries" }
    /\ threads = { "t1" }
    /\ env = "any"
    /\ Start

Set(f, t, v) == [f EXCEPT ![t] = v]

\* Mutant: a first failure of the classification call is not raised, the
\* call is made again
Raise_RetryOnce(t, type, where) ==
    IF where = "classify_query" /\ calls[t].classify_llm = 0
    THEN /\ pc' = Set(pc, t, "classifier")
         /\ UNCHANGED exc
    ELSE /\ exc' = Set(exc, t, [type |-> type, where |-> where])
         /\ pc' = Set(pc, t, "raise")

\* raise: the exception leaves the function and every caller up to the
\* handler of the entry point
Raise(t, type, where) ==
    /\ exc' = Set(exc, t, [type |-> type, where |-> where])
    /\ pc' = Set(pc, t, "raise")

\* An external call returns a content or raises
Failure == [ok |-> FALSE, content |-> << >>]
Success(content) == [ok |-> TRUE, content |-> content]

\* The replies a collaborator can give to an input: any content or a
\* failure; a collaborator that repeats itself gives the reply it gave to
\* the same input before
Replies(memo, input, contents) ==
    IF env = "repeatable" /\ \E m \in memo : m.input = input
    THEN { (CHOOSE m \in memo : m.input = input).reply }
    ELSE { Success(c) : c \in contents } \cup { Failure }

Learn(memo, input, reply) ==
    IF env = "repeatable"
    THEN memo \cup { [input |-> input, reply |-> reply] }
    ELSE memo

\* What the collaborators can answer in the program that runs
\* graph_workflow.py:86  self.llm.invoke(prompt_text)
ClassifierAnswers ==
    IF proc = "caller" THEN ConcClassifierContents ELSE ClassifierContents
\* rag_pipeline.py:171-173  similarity_search_with_relevance_scores
SearchAnswers ==
    IF proc = "caller" THEN ConcSearchResults ELSE SearchResults
\* rag_pipeline.py:230-231  self.llm.invoke(prompt_text)
GeneratedAnswers ==
    IF proc = "caller" THEN ConcAnswerContents ELSE AnswerContents

-----------------------------------------------------------------------------
(* graph_workflow.py: ChatbotWorkflow *)

Elements(seq) == { seq[i] : i \in DOMAIN seq }

\* Mutant: history[:4], the first four messages
LastMessages_First(h) ==
    SubSeq(h, 1, IF Len(h) > HistoryWindow THEN HistoryWindow ELSE Len(h))

\* graph_workflow.py:207  history[-4:]
LastMessages(h) ==
    SubSeq(h, IF Len(h) > HistoryWindow THEN Len(h) - HistoryWindow + 1 ELSE 1, Len(h))

\* graph_workflow.py:208  "User" if msg.get("sender") == "user" else "Bot"
SenderLabel(msg) ==
    IF msg.sender = "user" THEN << "U","s","e","r" >> ELSE << "B","o","t" >>

\* Mutant: the line is the text alone, without the sender's label
HistoryLine_TextOnly(msg) == msg.text

\* graph_workflow.py:208-210  f"{sender}: {text}"
HistoryLine(msg) == SenderLabel(msg) \o << ":"," " >> \o msg.text

\* graph_workflow.py:204-211
FormatHistory(h) ==
    IF h = << >> THEN << >>
    ELSE LET msgs == LastMessages(h)
         IN  Join([i \in DOMAIN msgs |-> HistoryLine(msgs[i])], << "\n" >>)

\* Mutant: the query is matched as typed
QueryLower_AsTyped(q) == q

\* graph_workflow.py:61  query.lower()
QueryLower(q) == Lower(q)

\* graph_workflow.py:62-63  the keywords found in the lower-cased query
MatchedKeywords(q) ==
    { i \in DOMAIN out_of_scope_keywords :
        Contains(QueryLower(q), out_of_scope_keywords[i]) }

\* Mutant: the output is lower-cased but not trimmed
NormalizeContent_NoStrip(content) == Lower(content)

\* graph_workflow.py:87  result.content.strip().lower()
NormalizeContent(content) == Lower(Strip(content))

\* Mutant: the category is taken as the model gave it
ValidateCategory_Unchecked(category) == category

\* graph_workflow.py:90-93
ValidateCategory(category) ==
    IF category \notin Elements(valid_categories) THEN escalate ELSE category

\* Mutant: every category is sent to rag_responder
RouteOf_Responder(st) == "rag_responder"

\* Mutant: a conversation with history is escalated whatever its category
RouteOf_ByHistory(st) ==
    IF st.category = escalate \/ st.history # << >>
    THEN "escalation_handler" ELSE "rag_responder"

\* graph_workflow.py:150-155
RouteOf(st) ==
    IF st.category = escalate THEN "escalation_handler" ELSE "rag_responder"

\* graph_workflow.py:244-245  if _workflow is None
get_workflow(t) ==
    /\ pc[t] = "get_workflow"
    /\ pc' = Set(pc, t, IF _workflow = None THEN "ChatbotWorkflow"
                        ELSE "get_workflow_return")
    /\ UNCHANGED << proc, _rag_pipeline, _workflow, threads, entry, query,
                    history, state, cls_content, route, docs_with_scores,
                    has_reliable_context, prompt, answer, result, exc, http,
                    calls, heap, index_builds, workflow, setup_self, pipeline,
                    oracle, returned, env, rag_question, rag_history, nodes,
                    gen_content, setup_calls >>

\* graph_workflow.py:246  _workflow = ChatbotWorkflow(): the object is named
\* by the thread that made it
new_workflow(t) ==
    /\ pc[t] = "ChatbotWorkflow"
    /\ _workflow' = t
    /\ pc' = Set(pc, t, "get_workflow_return")
    /\ UNCHANGED << proc, _rag_pipeline, threads, entry, query, history,
                    state, cls_content, route, docs_with_scores,
                    has_reliable_context, prompt, answer, result, exc, http,
                    calls, heap, index_builds, workflow, setup_self, pipeline,
                    oracle, returned, env, rag_question, rag_history, nodes,
                    gen_content, setup_calls >>

\* graph_workflow.py:247  return _workflow, and 261  workflow = get_workflow()
get_workflow_return(t) ==
    /\ pc[t] = "get_workflow_return"
    /\ workflow' = Set(workflow, t, _workflow)
    /\ pc' = Set(pc, t, "run")
    /\ UNCHANGED << proc, _rag_pipeline, _workflow, threads, entry, query,
                    history, state, cls_content, route, docs_with_scores,
                    has_reliable_context, prompt, answer, result, exc, http,
                    calls, heap, index_builds, setup_self, pipeline, oracle,
                    returned, env, rag_question, rag_history, nodes,
                    gen_content, setup_calls >>

\* Mutant: the caller's list is cut to its last messages in place
run_InPlace(t) ==
    /\ pc[t] = "run"
    /\ state' = Set(state, t, [query |-> query[t],
                               history |-> FormatHistory(history[t]),
                               category |-> << >>,
                               response |-> << >>])
    /\ pc' = Set(pc, t, "classifier")
    /\ history' = Set(history, t, LastMessages(history[t]))
    /\ UNCHANGED << proc, _rag_pipeline, _workflow, threads, entry, query,
                    cls_content, route, docs_with_scores,
                    has_reliable_context, prompt, answer, result, exc, http,
                    calls, heap, index_builds, workflow, setup_self, pipeline,
                    oracle, returned, env, rag_question, rag_history, nodes,
                    gen_content, setup_calls >>

\* graph_workflow.py:203-223, up to the graph's entry point
run(t) ==
    /\ pc[t] = "run"
    /\ state' = Set(state, t, [query |-> query[t],
                               history |-> FormatHistory(history[t]),
                               category |-> << >>,
                               response |-> << >>])
    /\ pc' = Set(pc, t, "classifier")
    /\ UNCHANGED << proc, _rag_pipeline, _workflow, threads, entry, query,
                    history, cls_content, route, docs_with_scores,
                    has_reliable_context, prompt, answer, result, exc, http,
                    calls, heap, index_builds, workflow, setup_self, pipeline,
                    oracle, returned, env, rag_question, rag_history, nodes,
                    gen_content, setup_calls >>

\* graph_workflow.py:65 and 95  state["category"] = ..., on the invocation's
\* own GraphState
StoreCategory(t, category) ==
    Set(state, t, [state[t] EXCEPT !.category = category])

\* Mutant: the classifier reads the history text together with the query
StateQuery_WithHistory(st) == st.history \o << "\n" >> \o st.query

\* graph_workflow.py:51  query = state.get("query", ""): what the keyword
\* check (62-66) and the classification prompt (85) are made from
StateQuery(st) == st.query

\* graph_workflow.py:40-97
classify_query(t) ==
    /\ pc[t] = "classifier"
    /\ nodes' = Set(nodes, t, Append(nodes[t], "classifier"))
    /\ IF MatchedKeywords(StateQuery(state[t])) # {}
       THEN /\ state' = StoreCategory(t, escalate)
            /\ pc' = Set(pc, t, "route_query")
            /\ UNCHANGED << cls_content, calls, exc, oracle >>
       ELSE /\ calls' = Set(calls, t, [calls[t] EXCEPT !.classify_llm = @ + 1])
            /\ \E reply \in Replies(oracle.classify, StateQuery(state[t]),
                                    ClassifierAnswers) :
                 /\ oracle' = [oracle EXCEPT
                                 !.classify =
                                     Learn(@, StateQuery(state[t]), reply)]
                 /\ IF reply.ok
                    THEN /\ cls_content' = Set(cls_content, t, reply.content)
                         /\ state' =
                               StoreCategory(t, ValidateCategory(
                                   NormalizeContent(reply.content)))
                         /\ pc' = Set(pc, t, "route_query")
                         /\ UNCHANGED exc
                    ELSE /\ Raise(t, "UpstreamFailure", "classify_query")
                         /\ UNCHANGED << state, cls_content >>
    /\ UNCHANGED << proc, _rag_pipeline, _workflow, threads, entry, query,
                    history, route, docs_with_scores, has_reliable_context,
                    prompt, answer, result, http, heap, index_builds,
                    workflow, setup_self, pipeline, returned, env,
                    rag_question, rag_history, gen_content, setup_calls >>

\* graph_workflow.py:140-155 and the conditional edges of lines 176-183
route_query(t) ==
    /\ pc[t] = "route_query"
    /\ route' = Set(route, t, RouteOf(state[t]))
    /\ pc' = Set(pc, t, RouteOf(state[t]))
    /\ UNCHANGED << proc, _rag_pipeline, _workflow, threads, entry, query,
                    history, state, cls_content, docs_with_scores,
                    has_reliable_context, prompt, answer, result, exc, http,
                    calls, heap, index_builds, workflow, setup_self, pipeline,
                    oracle, returned, env, rag_question, rag_history, nodes,
                    gen_content, setup_calls >>

\* graph_workflow.py:186-187  add_edge("rag_responder", END) and
\* add_edge("escalation_handler", END)
EdgeFrom(node) == "END"

\* graph_workflow.py:119-138
escalation_handler(t) ==
    /\ pc[t] = "escalation_handler"
    /\ nodes' = Set(nodes, t, Append(nodes[t], "escalation_handler"))
    /\ state' = Set(state, t, [state[t] EXCEPT !.response = EscalationMessage])
    /\ pc' = Set(pc, t, EdgeFrom("escalation_handler"))
    /\ UNCHANGED << proc, _rag_pipeline, _workflow, threads, entry, query,
                    history, cls_content, route, docs_with_scores,
                    has_reliable_context, prompt, answer, result, exc, http,
                    calls, heap, index_builds, workflow, setup_self, pipeline,
                    oracle, returned, env, rag_question, rag_history,
                    gen_content, setup_calls >>

\* graph_workflow.py:99-114, to the call of rag_pipeline.answer_with_rag
\* (rag_pipeline.py:255-266), which first asks for the global pipeline
rag_responder(t) ==
    /\ pc[t] = "rag_responder"
    /\ nodes' = Set(nodes, t, Append(nodes[t], "rag_responder"))
    /\ rag_question' = Set(rag_question, t, state[t].query)
    /\ rag_history' = Set(rag_history, t, state[t].history)
    /\ pc' = Set(pc, t, "get_rag_pipeline")
    /\ UNCHANGED << proc, _rag_pipeline, _workflow, threads, entry, query,
                    history, state, cls_content, route, docs_with_scores,
                    has_reliable_context, prompt, answer, result, exc, http,
                    calls, heap, index_builds, workflow, setup_self, pipeline,
                    oracle, returned, env, gen_content, setup_calls >>

\* graph_workflow.py:116-117
rag_responder_return(t) ==
    /\ pc[t] = "rag_responder_return"
    /\ state' = Set(state, t, [state[t] EXCEPT !.response = answer[t]])
    /\ pc' = Set(pc, t, EdgeFrom("rag_responder"))
    /\ UNCHANGED << proc, _rag_pipeline, _workflow, threads, entry, query,
                    history, cls_content, route, docs_with_scores,
                    has_reliable_context, prompt, answer, result, exc, http,
                    calls, heap, index_builds, workflow, setup_self, pipeline,
                    oracle, returned, env, rag_question, rag_history, nodes,
                    gen_content, setup_calls >>

\* Mutant: the invocation that set the pipeline up answers with the fallback
\* message (a cold start)
RunResult_ColdStart(t) ==
    [response |-> IF setup_self[t] # None THEN FallbackMessage
                  ELSE state[t].response,
     category |-> state[t].category]

\* graph_workflow.py:225-228
RunResult(t) ==
    [response |-> state[t].response, category |-> state[t].category]

\* graph_workflow.py:225-228
run_return(t) ==
    /\ pc[t] = "END"
    /\ result' = Set(result, t, RunResult(t))
    /\ pc' = Set(pc, t, "return")
    /\ UNCHANGED << proc, _rag_pipeline, _workflow, threads, entry, query,
                    history, state, cls_content, route, docs_with_scores,
                    has_reliable_context, prompt, answer, exc, http, calls,
                    heap, index_builds, workflow, setup_self, pipeline,
                    oracle, returned, env, rag_question, rag_history, nodes,
                    gen_content, setup_calls >>

-----------------------------------------------------------------------------
(* rag_pipeline.py *)

ConversationHistoryPrefix ==
    << "C","o","n","v","e","r","s","a","t","i","o","n"," ","h","i","s","t","o",
       "r","y",":","\n" >>
CurrentQuestionPrefix ==
    << "\n","\n","C","u","r","r","e","n","t"," ","q","u","e","s","t","i","o","n",
       ":"," " >>

\* rag_pipeline.py:34-38
NewPipeline ==
    [vectorstore |-> None, retriever |-> None, rag_chain |-> None, llm |-> None,
     prompt |-> None]

\* Mutant: a first score equal to the threshold is rejected
HasReliableContext_Strict(dws, threshold) ==
    Len(dws) > 0 /\ dws[1].score > threshold

\* rag_pipeline.py:178-181
HasReliableContext(dws, threshold) ==
    Len(dws) > 0 /\ dws[1].score >= threshold

\* Mutant: only the candidates that reach the threshold themselves are kept
Docs_AboveThreshold(dws) ==
    LET kept == SelectSeq(dws, LAMBDA d : d.score >= RELEVANCE_THRESHOLD)
    IN  [i \in DOMAIN kept |-> kept[i].page_content]

\* rag_pipeline.py:190  [doc for doc, score in docs_with_scores]
Docs(dws) == [i \in DOMAIN dws |-> dws[i].page_content]

\* rag_pipeline.py:220  "\n\n".join(doc.page_content for doc in docs)
Context(docs) == Join(docs, << "\n","\n" >>)

\* Mutant: the history header is put before the question even when there is
\* no history
EnhancedQuestion_Always(question, hist) ==
    ConversationHistoryPrefix \o hist \o CurrentQuestionPrefix \o question

\* rag_pipeline.py:223-227
EnhancedQuestion(question, hist) ==
    IF hist # << >>
    THEN ConversationHistoryPrefix \o hist \o CurrentQuestionPrefix \o question
    ELSE question

\* rag_pipeline.py:252  return _rag_pipeline: the global as it is now goes to
\* the caller, startup_event (main.py:136) or the module's answer_with_rag
\* (rag_pipeline.py:266-267)
ReturnPipeline(t) ==
    /\ pipeline' = Set(pipeline, t, _rag_pipeline)
    /\ pc' = Set(pc, t, IF entry[t] = "startup" THEN "startup_return"
                        ELSE "answer_with_rag")

\* Mutant: a pipeline that lacks its model counts as no pipeline
PipelineIsNone_OrUnset ==
    _rag_pipeline = None \/ heap[_rag_pipeline].llm = None

\* rag_pipeline.py:247  if _rag_pipeline is None
PipelineIsNone == _rag_pipeline = None

\* rag_pipeline.py:247-248 and 252
get_rag_pipeline(t) ==
    /\ pc[t] = "get_rag_pipeline"
    /\ IF PipelineIsNone
       THEN /\ pc' = Set(pc, t, "RAGPipeline")
            /\ UNCHANGED pipeline
       ELSE ReturnPipeline(t)
    /\ UNCHANGED << proc, _rag_pipeline, _workflow, threads, entry, query,
                    history, state, cls_content, route, docs_with_scores,
                    has_reliable_context, prompt, answer, result, exc, http,
                    calls, heap, index_builds, workflow, setup_self, oracle,
                    returned, env, rag_question, rag_history, nodes,
                    gen_content, setup_calls >>

\* rag_pipeline.py:250  _rag_pipeline = RAGPipeline(): the object is named by
\* the thread that made it
new_rag_pipeline(t) ==
    /\ pc[t] = "RAGPipeline"
    /\ heap' = [heap EXCEPT ![t] = NewPipeline]
    /\ _rag_pipeline' = t
    /\ pc' = Set(pc, t, "setup_rag_chain")
    /\ UNCHANGED << proc, _workflow, threads, entry, query, history, state,
                    cls_content, route, docs_with_scores,
                    has_reliable_context, prompt, answer, result, exc, http,
                    calls, index_builds, workflow, setup_self, pipeline,
                    oracle, returned, env, rag_question, rag_history, nodes,
                    gen_content, setup_calls >>

\* rag_pipeline.py:119-121: the calls of setup_rag_chain up to the index
SetupSteps == << "load_documents", "split_documents", "create_vector_store" >>

\* Mutant: the missing file is noticed only once the index is being built
SetupCalls_All(last) == SetupSteps

\* rag_pipeline.py:119-121: the calls made when `last` is the one that raises
\* or the one that ends the sequence; a call that raises ends it (49-50)
SetupCalls(last) ==
    SubSeq(SetupSteps, 1,
           CHOOSE i \in DOMAIN SetupSteps : SetupSteps[i] = last)

\* rag_pipeline.py:251  _rag_pipeline.setup_rag_chain(): self is the global as
\* it is at the call; then 119-121: load_documents (40-58), split_documents,
\* create_vector_store (83-110)
setup_rag_chain(t) ==
    /\ pc[t] = "setup_rag_chain"
    /\ setup_self' = Set(setup_self, t, _rag_pipeline)
    /\ \/ /\ Raise(t, "FileNotFoundError", "load_documents")
          /\ setup_calls' = Set(setup_calls, t, SetupCalls("load_documents"))
          /\ UNCHANGED << heap, index_builds >>
       \/ /\ Raise(t, "UpstreamFailure", "create_vector_store")
          /\ setup_calls' =
                Set(setup_calls, t, SetupCalls("create_vector_store"))
          /\ UNCHANGED << heap, index_builds >>
       \/ /\ heap' = [heap EXCEPT ![_rag_pipeline].vectorstore = "Chroma"]
          /\ setup_calls' =
                Set(setup_calls, t, SetupCalls("create_vector_store"))
          /\ index_builds' = index_builds + 1
          /\ pc' = Set(pc, t, "setup_rag_chain_llm")
          /\ UNCHANGED exc
    /\ UNCHANGED << proc, _rag_pipeline, _workflow, threads, entry, query,
                    history, state, cls_content, route, docs_with_scores,
                    has_reliable_context, prompt, answer, result, http, calls,
                    workflow, pipeline, oracle, returned, env, rag_question,
                    rag_history, nodes, gen_content >>

\* rag_pipeline.py:124-155: the retriever, then the model client, whose
\* construction can fail (133-137), then the prompt; then get_rag_pipeline's
\* return (252)
setup_rag_chain_llm(t) ==
    /\ pc[t] = "setup_rag_chain_llm"
    /\ \/ /\ heap' = [heap EXCEPT ![setup_self[t]].retriever = "retriever"]
          /\ Raise(t, "UpstreamFailure", "ChatGoogleGenerativeAI")
          /\ UNCHANGED pipeline
       \/ /\ heap' = [heap EXCEPT ![setup_self[t]] =
                         [@ EXCEPT !.retriever = "retriever",
                                   !.llm = "ChatGoogleGenerativeAI",
                                   !.prompt = "PromptTemplate"]]
          /\ ReturnPipeline(t)
          /\ UNCHANGED exc
    /\ UNCHANGED << proc, _rag_pipeline, _workflow, threads, entry, query,
                    history, state, cls_content, route, docs_with_scores,
                    has_reliable_context, prompt, answer, result, http, calls,
                    index_builds, workflow, setup_self, oracle, returned, env,
                    rag_question, rag_history, nodes, gen_content, setup_calls >>

\* Mutant: the operations do not look at what was set up
NotInitialized_Unchecked(p) == None

\* rag_pipeline.py:205-206 (answer_with_rag: if not self.llm) and 167-168
\* (retrieve_with_scores: if not self.vectorstore): the function that raises
\* ValueError, or None
NotInitialized(p) ==
    IF p.llm = None THEN "answer_with_rag"
    ELSE IF p.vectorstore = None THEN "retrieve_with_scores"
    ELSE None

\* Mutant: the index is searched with the question as the prompt has it
SearchQuery_Enhanced(question, hist) == EnhancedQuestion(question, hist)

\* rag_pipeline.py:209  self.retrieve_with_scores(question) and 171-173
\* similarity_search_with_relevance_scores(question, k=3): of the question
\* and the history answer_with_rag got, the search gets the question
SearchQuery(question, hist) == question

\* rag_pipeline.py:205-209 with retrieve_with_scores (157-192), on the
\* pipeline get_rag_pipeline returned
retrieve_with_scores(t) ==
    /\ pc[t] = "answer_with_rag"
    /\ IF NotInitialized(heap[pipeline[t]]) # None
       THEN /\ Raise(t, "ValueError", NotInitialized(heap[pipeline[t]]))
            /\ UNCHANGED << docs_with_scores, has_reliable_context, calls,
                            oracle >>
       ELSE /\ calls' = Set(calls, t, [calls[t] EXCEPT !.search = @ + 1])
            /\ \E reply \in Replies(oracle.search,
                                    SearchQuery(rag_question[t],
                                                rag_history[t]),
                                    SearchAnswers) :
                 /\ oracle' = [oracle EXCEPT
                                 !.search =
                                     Learn(@, SearchQuery(rag_question[t],
                                                          rag_history[t]),
                                           reply)]
                 /\ IF reply.ok
                    THEN /\ docs_with_scores' =
                               Set(docs_with_scores, t, reply.content)
                         /\ has_reliable_context' =
                               Set(has_reliable_context, t,
                                   HasReliableContext(reply.content,
                                                      RELEVANCE_THRESHOLD))
                         /\ pc' = Set(pc, t, "answer_with_rag_gate")
                         /\ UNCHANGED exc
                    ELSE /\ Raise(t, "UpstreamFailure", "similarity_search")
                         /\ UNCHANGED << docs_with_scores,
                                         has_reliable_context >>
    /\ UNCHANGED << proc, _rag_pipeline, _workflow, threads, entry, query,
                    history, state, cls_content, route, prompt, answer,
                    result, http, heap, index_builds, workflow, setup_self,
                    pipeline, returned, env, rag_question, rag_history, nodes,
                    gen_content, setup_calls >>

\* rag_pipeline.py:267: the answer goes to the caller of the module's
\* answer_with_rag, rag_responder (graph_workflow.py:114) or chat_direct
\* (main.py:234)
AnswerReturn(t) ==
    IF entry[t] = "chat_direct" THEN "chat_direct_return"
    ELSE "rag_responder_return"

\* Mutant: the verdict is ignored and the model always asked
UseFallback_Never(reliable) == FALSE

\* rag_pipeline.py:212  if not has_reliable_context
UseFallback(reliable) == ~reliable

\* rag_pipeline.py:211-233
answer_with_rag(t) ==
    /\ pc[t] = "answer_with_rag_gate"
    /\ IF UseFallback(has_reliable_context[t])
       THEN /\ answer' = Set(answer, t, FallbackMessage)
            /\ pc' = Set(pc, t, AnswerReturn(t))
            /\ UNCHANGED << prompt, calls, exc, oracle, gen_content >>
       ELSE LET prompt_text ==
                    [context |-> Context(Docs(docs_with_scores[t])),
                     question |-> EnhancedQuestion(rag_question[t],
                                                   rag_history[t])]
            IN  /\ prompt' = Set(prompt, t, prompt_text)
                /\ calls' = Set(calls, t,
                                [calls[t] EXCEPT !.generate_llm = @ + 1])
                /\ \E reply \in Replies(oracle.generate, prompt_text,
                                        GeneratedAnswers) :
                     /\ oracle' = [oracle EXCEPT
                                     !.generate = Learn(@, prompt_text, reply)]
                     /\ IF reply.ok
                        THEN /\ gen_content' =
                                   Set(gen_content, t, reply.content)
                             /\ answer' = Set(answer, t, gen_content'[t])
                             /\ pc' = Set(pc, t, AnswerReturn(t))
                             /\ UNCHANGED exc
                        ELSE /\ Raise(t, "UpstreamFailure", "answer_with_rag")
                             /\ UNCHANGED << answer, gen_content >>
    /\ UNCHANGED << proc, _rag_pipeline, _workflow, threads, entry, query,
                    history, state, cls_content, route, docs_with_scores,
                    has_reliable_context, result, http, heap, index_builds,
                    workflow, setup_self, pipeline, returned, env,
                    rag_question, rag_history, nodes, setup_calls >>

-----------------------------------------------------------------------------
(* Entry points: main.py and demo_queries.py *)

Idle(t) == t \in threads /\ pc[t] = "idle"

\* main.py:130-136
startup_event(t) ==
    /\ proc = "main:starting"
    /\ Idle(t)
    /\ entry' = Set(entry, t, "startup")
    /\ pc' = Set(pc, t, "get_rag_pipeline")
    /\ UNCHANGED << proc, _rag_pipeline, _workflow, threads, query, history,
                    state, cls_content, route, docs_with_scores,
                    has_reliable_context, prompt, answer, result, exc, http,
                    calls, heap, index_builds, workflow, setup_self, pipeline,
                    oracle, returned, env, rag_question, rag_history, nodes,
                    gen_content, setup_calls >>

\* main.py:137: the pipeline is there, the application starts serving
startup_return(t) ==
    /\ pc[t] = "startup_return"
    /\ proc' = "main:serving"
    /\ pc' = Set(pc, t, "done")
    /\ UNCHANGED << _rag_pipeline, _workflow, threads, entry, query, history,
                    state, cls_content, route, docs_with_scores,
                    has_reliable_context, prompt, answer, result, exc, http,
                    calls, heap, index_builds, workflow, setup_self, pipeline,
                    oracle, returned, env, rag_question, rag_history, nodes,
                    gen_content, setup_calls >>

\* main.py:138-140: the error is raised again and the application exits
startup_except(t) ==
    /\ pc[t] = "raise"
    /\ entry[t] = "startup"
    /\ proc' = "main:exited"
    /\ pc' = Set(pc, t, "done")
    /\ UNCHANGED << _rag_pipeline, _workflow, threads, entry, query, history,
                    state, cls_content, route, docs_with_scores,
                    has_reliable_context, prompt, answer, result, exc, http,
                    calls, heap, index_builds, workflow, setup_self, pipeline,
                    oracle, returned, env, rag_question, rag_history, nodes,
                    gen_content, setup_calls >>

\* main.py:161-187: a request with a non-empty query (line 87); a missing
\* or empty history reaches run as None
chat(t) ==
    /\ proc = "main:serving"
    /\ Idle(t)
    /\ \E q \in Queries \ { << >> }, h \in Histories :
         /\ query' = Set(query, t, q)
         /\ history' = Set(history, t, h)
    /\ entry' = Set(entry, t, "chat")
    /\ pc' = Set(pc, t, "get_workflow")
    /\ UNCHANGED << proc, _rag_pipeline, _workflow, threads, state,
                    cls_content, route, docs_with_scores,
                    has_reliable_context, prompt, answer, result, exc, http,
                    calls, heap, index_builds, workflow, setup_self, pipeline,
                    oracle, returned, env, rag_question, rag_history, nodes,
                    gen_content, setup_calls >>

\* main.py:194-197  ChatResponse(response=..., category=...)
ChatResponse(res) ==
    [status |-> 200, response |-> res.response, category |-> res.category]

\* main.py:189-197
chat_return(t) ==
    /\ pc[t] = "return"
    /\ entry[t] = "chat"
    /\ http' = Set(http, t, ChatResponse(result[t]))
    /\ pc' = Set(pc, t, "done")
    /\ UNCHANGED << proc, _rag_pipeline, _workflow, threads, entry, query,
                    history, state, cls_content, route, docs_with_scores,
                    has_reliable_context, prompt, answer, result, exc, calls,
                    heap, index_builds, workflow, setup_self, pipeline,
                    oracle, returned, env, rag_question, rag_history, nodes,
                    gen_content, setup_calls >>

\* Mutant: the error is answered as a normal reply with the fallback text
ErrorResponse_Swallowed(e) ==
    [status |-> 200, response |-> FallbackMessage, category |-> << >>]

\* main.py:201-204  HTTPException(status_code=500, detail=f"...{str(e)}")
ErrorResponse(e) == [status |-> 500, detail |-> e]

\* main.py:199-204
chat_except(t) ==
    /\ pc[t] = "raise"
    /\ entry[t] = "chat"
    /\ http' = Set(http, t, ErrorResponse(exc[t]))
    /\ pc' = Set(pc, t, "done")
    /\ UNCHANGED << proc, _rag_pipeline, _workflow, threads, entry, query,
                    history, state, cls_content, route, docs_with_scores,
                    has_reliable_context, prompt, answer, result, exc, calls,
                    heap, index_builds, workflow, setup_self, pipeline,
                    oracle, returned, env, rag_question, rag_history, nodes,
                    gen_content, setup_calls >>

direct == << "d","i","r","e","c","t" >>

\* Mutant: every turn of the history is rendered
DirectHistory_All(h) ==
    Join([i \in DOMAIN h |->
            (IF h[i].sender = "user" THEN << "U","s","e","r" >>
             ELSE << "B","o","t" >>) \o << ":"," " >> \o h[i].text],
         << "\n" >>)

\* main.py:226-232: request.history[-4:], "User" if msg.sender == "user" else
\* "Bot", f"{sender}: {msg.text}", "\n".join
DirectHistory(h) ==
    IF h = << >> THEN << >>
    ELSE LET first == IF Len(h) > DirectWindow THEN Len(h) - DirectWindow + 1
                      ELSE 1
             msgs == SubSeq(h, first, Len(h))
         IN  Join([i \in DOMAIN msgs |->
                     (IF msgs[i].sender = "user" THEN << "U","s","e","r" >>
                      ELSE << "B","o","t" >>) \o << ":"," " >> \o msgs[i].text],
                  << "\n" >>)

\* main.py:208-234: /chat/direct calls answer_with_rag with the query and the
\* rendered history; no workflow, no GraphState
chat_direct(t) ==
    /\ proc = "main:serving"
    /\ Idle(t)
    /\ \E q \in Queries \ { << >> }, h \in Histories :
         /\ query' = Set(query, t, q)
         /\ history' = Set(history, t, h)
         /\ rag_question' = Set(rag_question, t, q)
         /\ rag_history' = Set(rag_history, t, DirectHistory(h))
    /\ entry' = Set(entry, t, "chat_direct")
    /\ pc' = Set(pc, t, "get_rag_pipeline")
    /\ UNCHANGED << proc, _rag_pipeline, _workflow, threads, state,
                    cls_content, route, docs_with_scores,
                    has_reliable_context, prompt, answer, result, exc, http,
                    calls, heap, index_builds, workflow, setup_self, pipeline,
                    oracle, returned, env, nodes, gen_content, setup_calls >>

\* main.py:234-236  ChatResponse(response=response, category="direct")
chat_direct_return(t) ==
    /\ pc[t] = "chat_direct_return"
    /\ http' = Set(http, t, ChatResponse([response |-> answer[t],
                                          category |-> direct]))
    /\ pc' = Set(pc, t, "done")
    /\ UNCHANGED << proc, _rag_pipeline, _workflow, threads, entry, query,
                    history, state, cls_content, route, docs_with_scores,
                    has_reliable_context, prompt, answer, result, exc, calls,
                    heap, index_builds, workflow, setup_self, pipeline,
                    oracle, returned, env, rag_question, rag_history, nodes,
                    gen_content, setup_calls >>

\* main.py:238-243
chat_direct_except(t) ==
    /\ pc[t] = "raise"
    /\ entry[t] = "chat_direct"
    /\ http' = Set(http, t, ErrorResponse(exc[t]))
    /\ pc' = Set(pc, t, "done")
    /\ UNCHANGED << proc, _rag_pipeline, _workflow, threads, entry, query,
                    history, state, cls_content, route, docs_with_scores,
                    has_reliable_context, prompt, answer, result, exc, calls,
                    heap, index_builds, workflow, setup_self, pipeline,
                    oracle, returned, env, rag_question, rag_history, nodes,
                    gen_content, setup_calls >>

\* demo_queries.py:91-104: a script calls run_chatbot_flow directly, with no
\* start-up step before it
run_demo(t) ==
    /\ proc = "demo_queries"
    /\ Idle(t)
    /\ \E q \in Queries, h \in Histories :
         /\ query' = Set(query, t, q)
         /\ history' = Set(history, t, h)
    /\ entry' = Set(entry, t, "demo")
    /\ pc' = Set(pc, t, "get_workflow")
    /\ UNCHANGED << proc, _rag_pipeline, _workflow, threads, state,
                    cls_content, route, docs_with_scores,
                    has_reliable_context, prompt, answer, result, exc, http,
                    calls, heap, index_builds, workflow, setup_self, pipeline,
                    oracle, returned, env, rag_question, rag_history, nodes,
                    gen_content, setup_calls >>

\* demo_queries.py:106-118 (the result is printed) and 120-121 (so is the
\* error)
run_demo_return(t) ==
    /\ pc[t] \in { "return", "raise" }
    /\ entry[t] = "demo"
    /\ pc' = Set(pc, t, "done")
    /\ UNCHANGED << proc, _rag_pipeline, _workflow, threads, entry, query,
                    history, state, cls_content, route, docs_with_scores,
                    has_reliable_context, prompt, answer, result, exc, http,
                    calls, heap, index_builds, workflow, setup_self, pipeline,
                    oracle, returned, env, rag_question, rag_history, nodes,
                    gen_content, setup_calls >>

\* graph_workflow.py:250-262: run_chatbot_flow is a public function; a caller
\* calls it from its one thread, or from each of its threads (a thread pool,
\* a server that runs its handlers in worker threads), with no start-up step
run_chatbot_flow(t) ==
    /\ proc = "caller"
    /\ Idle(t)
    /\ \E q \in ConcQueries, h \in ConcHistories :
         /\ query' = Set(query, t, q)
         /\ history' = Set(history, t, h)
    /\ entry' = Set(entry, t, "thread")
    /\ pc' = Set(pc, t, "get_workflow")
    /\ UNCHANGED << proc, _rag_pipeline, _workflow, threads, state,
                    cls_content, route, docs_with_scores,
                    has_reliable_context, prompt, answer, result, exc, http,
                    calls, heap, index_builds, workflow, setup_self, pipeline,
                    oracle, returned, env, rag_question, rag_history, nodes,
                    gen_content, setup_calls >>

\* The first result returned for each query and history, kept for comparison
\* where the collaborators repeat their answers
Remember(t) ==
    IF /\ env = "repeatable"
       /\ pc[t] = "return"
       /\ ~\E r \in returned : r.query = query[t] /\ r.history = history[t]
    THEN returned \cup { [query |-> query[t], history |-> history[t],
                          result |-> result[t]] }
    ELSE returned

\* graph_workflow.py:262: the result or the exception goes to the caller
run_chatbot_flow_return(t) ==
    /\ pc[t] \in { "return", "raise" }
    /\ entry[t] = "thread"
    /\ returned' = Remember(t)
    /\ pc' = Set(pc, t, "done")
    /\ UNCHANGED << proc, _rag_pipeline, _workflow, threads, entry, query,
                    history, state, cls_content, route, docs_with_scores,
                    has_reliable_context, prompt, answer, result, exc, http,
                    calls, heap, index_builds, workflow, setup_self, pipeline,
                    oracle, env, rag_question, rag_history, nodes,
                    gen_content, setup_calls >>

\* The invocation is over: its frame and its GraphState are gone
finish(t) ==
    /\ pc[t] = "done"
    /\ proc # "main:exited"
    /\ pc' = Set(pc, t, "idle")
    /\ entry' = Set(entry, t, None)
    /\ query' = Set(query, t, << >>)
    /\ history' = Set(history, t, << >>)
    /\ state' = Set(state, t, NoState)
    /\ cls_content' = Set(cls_content, t, << >>)
    /\ route' = Set(route, t, None)
    /\ docs_with_scores' = Set(docs_with_scores, t, << >>)
    /\ has_reliable_context' = Set(has_reliable_context, t, FALSE)
    /\ prompt' = Set(prompt, t, NoPrompt)
    /\ answer' = Set(answer, t, << >>)
    /\ result' = Set(result, t, NoneObj)
    /\ exc' = Set(exc, t, NoneObj)
    /\ http' = Set(http, t, NoneObj)
    /\ calls' = Set(calls, t, NoCalls)
    /\ workflow' = Set(workflow, t, None)
    /\ setup_self' = Set(setup_self, t, None)
    /\ pipeline' = Set(pipeline, t, None)
    /\ rag_question' = Set(rag_question, t, << >>)
    /\ rag_history' = Set(rag_history, t, << >>)
    /\ nodes' = Set(nodes, t, << >>)
    /\ gen_content' = Set(gen_content, t, << >>)
    /\ setup_calls' = Set(setup_calls, t, << >>)
    /\ UNCHANGED << proc, _rag_pipeline, _workflow, threads, heap,
                    index_builds, oracle, returned, env >>

-----------------------------------------------------------------------------

Next ==
    \E t \in Threads :
        \/ startup_event(t) \/ startup_return(t) \/ startup_except(t)
        \/ chat(t) \/ chat_return(t) \/ chat_except(t)
        \/ chat_direct(t) \/ chat_direct_return(t) \/ chat_direct_except(t)
        \/ run_demo(t) \/ run_demo_return(t)
        \/ get_workflow(t) \/ new_workflow(t) \/ get_workflow_return(t)
        \/ run(t) \/ classify_query(t) \/ route_query(t)
        \/ escalation_handler(t) \/ rag_responder(t) \/ rag_responder_return(t)
        \/ run_return(t)
        \/ get_rag_pipeline(t) \/ new_rag_pipeline(t) \/ setup_rag_chain(t)
        \/ setup_rag_chain_llm(t) \/ retrieve_with_scores(t) \/ answer_with_rag(t)
        \/ finish(t)

Spec == Init /\ [][Next]_vars

\* A caller with several threads: every thread can step at any time
InitConc ==
    /\ proc = "caller"
    /\ threads = Threads
    /\ env = "any"
    /\ Start

NextConc ==
    \E t \in Threads :
        \/ run_chatbot_flow(t) \/ run_chatbot_flow_return(t)
        \/ get_workflow(t) \/ new_workflow(t) \/ get_workflow_return(t)
        \/ run(t) \/ classify_query(t) \/ route_query(t)
        \/ escalation_handler(t) \/ rag_responder(t) \/ rag_responder_return(t)
        \/ run_return(t)
        \/ get_rag_pipeline(t) \/ new_rag_pipeline(t) \/ setup_rag_chain(t)
        \/ setup_rag_chain_llm(t) \/ retrieve_with_scores(t) \/ answer_with_rag(t)
        \/ finish(t)

SpecConc == InitConc /\ [][NextConc]_vars

\* A caller with one thread and collaborators that repeat their answers: the
\* same input gets the same reply, a failure included
InitDet ==
    /\ proc = "caller"
    /\ threads = { "t1" }
    /\ env = "repeatable"
    /\ Start

SpecDet == InitDet /\ [][NextConc]_vars

-----------------------------------------------------------------------------
(* Properties *)

\* The thread serves an invocation of run_chatbot_flow
Invoked(t) == entry[t] \in { "chat", "demo", "thread" }

ClassifierFailed(t) == exc[t] # NoneObj /\ exc[t].where = "classify_query"
SearchFailed(t) == exc[t] # NoneObj /\ exc[t].where = "similarity_search"
GenerationFailed(t) ==
    /\ exc[t] # NoneObj
    /\ exc[t].where = "answer_with_rag"
    /\ exc[t].type = "UpstreamFailure"

\* classify_query has run on the invocation's state, to its return or raise
ClassifierRan(t) ==
    /\ Invoked(t)
    /\ pc[t] \notin { "idle", "get_workflow", "ChatbotWorkflow",
                      "get_workflow_return", "run", "classifier" }

\* classify_query has returned
Classified(t) == ClassifierRan(t) /\ ~ClassifierFailed(t)

\* The similarity search of the invocation has returned its candidates
Retrieved(t) == calls[t].search = 1 /\ ~SearchFailed(t)

\* run has returned, or its graph has reached END
Completed(t) ==
    Invoked(t) /\ pc[t] \in { "END", "return", "done" } /\ exc[t] = NoneObj

CategorySet == { products, returns, general, escalate }

\* Some configured keyword is a substring of the lower-cased text
HasRiskKeyword(q) ==
    \E i \in DOMAIN out_of_scope_keywords :
        \E j \in 1 .. Len(q) :
            /\ j + Len(out_of_scope_keywords[i]) - 1 <= Len(q)
            /\ \A n \in 1 .. Len(out_of_scope_keywords[i]) :
                 LowerChar(q[j + n - 1]) = out_of_scope_keywords[i][n]

\* The queries of the model that contain a keyword
RiskQueries == { q \in Queries : HasRiskKeyword(q) }

\* The model's output after trimming and lower-casing, if it is a category,
\* and escalate otherwise
CategoryFor(content) ==
    LET text == Lower(Strip(content))
    IN  IF text \in CategorySet THEN text ELSE escalate

\* The same, for each output the classification model gives in this model
ExpectedCategory == [content \in ClassifierContents |-> CategoryFor(content)]

\* C1: a query whose lower-cased text contains a configured out-of-scope
\* keyword gets the category escalate from classify_query, which returns
\* without a single call of the classification model.
C1_KeywordEscalatesWithoutModel ==
    \A t \in Threads :
        (ClassifierRan(t) /\ query[t] \in RiskQueries) =>
            /\ state[t].category = escalate
            /\ calls[t].classify_llm = 0
            /\ ~ClassifierFailed(t)

\* C1 witness: "I will SUE you" has been classified by the rule phase
C1_Witness ==
    \E t \in Threads :
        /\ pc[t] = "route_query"
        /\ query[t] = QuerySue
        /\ query[t] \in RiskQueries
        /\ state[t].category = escalate
        /\ calls[t].classify_llm = 0

\* C2: when no keyword matches, classify_query returns the model's output
\* trimmed and lower-cased if that is one of products, returns, general,
\* escalate, and escalate for every other output.
C2_ModelPhaseNormalisesOrEscalates ==
    \A t \in Threads :
        (Classified(t) /\ query[t] \notin RiskQueries) =>
            /\ calls[t].classify_llm = 1
            /\ state[t].category = ExpectedCategory[cls_content[t]]

\* C2 witness: the model answered " Returns\n" and the category is returns
C2_Witness ==
    \E t \in Threads :
        /\ Classified(t)
        /\ query[t] \notin RiskQueries
        /\ cls_content[t] = << " ","R","e","t","u","r","n","s","\n" >>
        /\ state[t].category = returns

\* C3: the branch taken after classification is decided by the category
\* alone: escalate leads to escalation_handler and its fixed message, every
\* other category to rag_responder, whose response is what answer_with_rag
\* returned.
C3_RoutingByCategoryOnly ==
    \A t \in Threads :
        /\ (Classified(t) /\ pc[t] # "route_query") =>
              /\ route[t] = "escalation_handler" <=> state[t].category = escalate
              /\ route[t] = "rag_responder" <=> state[t].category # escalate
        /\ (Completed(t) /\ state[t].category = escalate) =>
              /\ state[t].response = EscalationMessage
              /\ calls[t].search = 0
              /\ calls[t].generate_llm = 0
        /\ (Completed(t) /\ state[t].category # escalate) =>
              /\ Retrieved(t)
              /\ state[t].response = answer[t]

\* C3 witness: two completed runs of the same query and history took
\* different branches because the classifier's category differed
C3_Witness ==
    \E t \in Threads :
        /\ Completed(t)
        /\ query[t] = QueryReturnPolicy
        /\ Len(history[t]) = 2
        /\ state[t].category = returns
        /\ state[t].response = << "o","k" >>
        /\ route[t] = "rag_responder"

\* C4: when retrieval is judged not reliable, answer_with_rag returns the
\* fixed fallback string and the answer model is not called.
C4_FallbackWithoutGeneration ==
    \A t \in Threads :
        (Retrieved(t) /\ ~has_reliable_context[t]) =>
            /\ calls[t].generate_llm = 0
            /\ exc[t] = NoneObj
            /\ pc[t] # "answer_with_rag_gate" => answer[t] = FallbackMessage

\* C4 witness: candidates were found, the best scored under the threshold,
\* and the fallback was returned
C4_Witness ==
    \E t \in Threads :
        /\ Retrieved(t)
        /\ pc[t] = "rag_responder_return"
        /\ Len(docs_with_scores[t]) = 2
        /\ ~has_reliable_context[t]
        /\ answer[t] = FallbackMessage

Thresholds == { 0, 1, 39, 40, 41, 100 }

\* not reliable: no candidate, or the first one scores below the threshold
Unreliable(dws, threshold) ==
    IF dws = << >> THEN TRUE ELSE dws[1].score < threshold

\* C5: the gate reports not reliable for an empty candidate list and for a
\* list whose first score is below the threshold, and reliable in every
\* other case, a first score equal to the threshold included; so it does
\* for every threshold between 0 and 1 (0 to 100 hundredths).
C5_GateVerdict ==
    \A t \in Threads :
        Retrieved(t) =>
            /\ has_reliable_context[t]
                 = ~Unreliable(docs_with_scores[t], RELEVANCE_THRESHOLD)
            /\ \A th \in Thresholds :
                 HasReliableContext(docs_with_scores[t], th)
                   = ~Unreliable(docs_with_scores[t], th)

\* C5 witness: the first candidate scores exactly the threshold, a later one
\* below it, and the verdict is reliable
C5_Witness ==
    \E t \in Threads :
        /\ Retrieved(t)
        /\ Len(docs_with_scores[t]) = 2
        /\ docs_with_scores[t][1].score = RELEVANCE_THRESHOLD
        /\ docs_with_scores[t][2].score < RELEVANCE_THRESHOLD
        /\ has_reliable_context[t]

\* C6: classify_query never raises to its caller: a failed call of the
\* classification model ends in the category escalate, not in an exception.
C6_ClassifyNeverRaises ==
    \A t \in Threads :
        ClassifierRan(t) =>
            /\ ~ClassifierFailed(t)
            /\ state[t].category \in CategorySet

\* C7: a failed search or generation call leaves answer_with_rag and run
\* as an exception, nothing is returned by either, and the /chat handler
\* answers 500 with the error as its detail and no response text.
C7_AnswerFailurePropagates ==
    \A t \in Threads :
        (Invoked(t) /\ (SearchFailed(t) \/ GenerationFailed(t))) =>
            /\ pc[t] \in { "raise", "done" }
            /\ answer[t] = << >>
            /\ state[t].response = << >>
            /\ result[t] = NoneObj
            /\ (entry[t] = "chat" /\ pc[t] = "done") =>
                  /\ http[t].status = 500
                  /\ http[t].detail = exc[t]
                  /\ "response" \notin DOMAIN http[t]

\* C7 witness: the answer model failed and /chat has answered 500
C7_Witness ==
    \E t \in Threads :
        /\ entry[t] = "chat"
        /\ GenerationFailed(t)
        /\ pc[t] = "done"
        /\ http[t] # NoneObj
        /\ http[t].status = 500

\* C8 as stated: for "My laptop screen is broken, what should I do?" the
\* rule phase matches, the category is escalate and the classification
\* model is not called.
C8_BrokenLaptopRuleMatch ==
    \A t \in Threads :
        (ClassifierRan(t) /\ query[t] = QueryBrokenLaptop) =>
            /\ state[t].category = escalate
            /\ calls[t].classify_llm = 0

\* C8 as amended: for "My laptop screen is broken, what should I do?" no
\* keyword matches, the classification model is called exactly once, and
\* when it answers the category is its trimmed, lower-cased output if that
\* is a category and escalate otherwise.
C8_BrokenLaptopGoesToModel ==
    \A t \in Threads :
        (ClassifierRan(t) /\ query[t] = QueryBrokenLaptop) =>
            /\ calls[t].classify_llm = 1
            /\ ~ClassifierFailed(t) =>
                  state[t].category = ExpectedCategory[cls_content[t]]

\* C8 witness: the query was classified as products by the model
C8_Witness ==
    \E t \in Threads :
        /\ Classified(t)
        /\ query[t] = QueryBrokenLaptop
        /\ calls[t].classify_llm = 1
        /\ cls_content[t] = products
        /\ state[t].category = products

\* The line a turn is rendered as
TurnLine(msg) ==
    IF msg.sender = "user"
    THEN << "U","s","e","r",":"," " >> \o msg.text
    ELSE << "B","o","t",":"," " >> \o msg.text

\* The lines of a text: its pieces between newlines
RECURSIVE SplitLines(_)
SplitLines(text) ==
    IF \A i \in DOMAIN text : text[i] # "\n" THEN << text >>
    ELSE LET cut == CHOOSE i \in DOMAIN text :
                       text[i] = "\n" /\ \A j \in 1 .. i - 1 : text[j] # "\n"
         IN  << SubSeq(text, 1, cut - 1) >>
               \o SplitLines(SubSeq(text, cut + 1, Len(text)))

\* text renders exactly the last min(N, 4) turns of h, in their order, and
\* holds the text of no earlier turn
RendersLastFour(h, text) ==
    LET n == Len(h)
        m == IF n < 4 THEN n ELSE 4
        lines == SplitLines(text)
    IN  /\ n = 0 => text = << >>
        /\ n > 0 => /\ Len(lines) = m
                    /\ \A j \in 1 .. m : lines[j] = TurnLine(h[n - m + j])
        /\ \A i \in 1 .. n - m : ~Contains(text, h[i].text)

\* The GraphState of the invocation exists
StateBuilt(t) ==
    /\ Invoked(t)
    /\ pc[t] \notin { "idle", "get_workflow", "ChatbotWorkflow",
                      "get_workflow_return", "run" }

\* C9: for a history of N turns run renders exactly the last min(N, 4)
\* turns, in their original order; with N > 4 the first N - 4 turns do not
\* appear in the history text.
C9_LastFourTurnsInOrder ==
    \A t \in Threads :
        StateBuilt(t) => RendersLastFour(history[t], state[t].history)

\* C9 witness: a history of more than four turns has been rendered
C9_Witness ==
    \E t \in Threads :
        /\ StateBuilt(t)
        /\ Len(history[t]) > 4
        /\ Len(SplitLines(state[t].history)) = 4
        /\ ~Contains(state[t].history, history[t][1].text)

\* C10: from the return of classify_query on, and in every result of run
\* (and in the reply of /chat, which forwards it), the category is one of
\* products, returns, general, escalate.
C10_CategoryInClosedSet ==
    \A t \in Threads :
        /\ Classified(t) => state[t].category \in CategorySet
        /\ result[t] # NoneObj => result[t].category \in CategorySet
        /\ (Invoked(t) /\ http[t] # NoneObj /\ http[t].status = 200) =>
              http[t].category \in CategorySet

\* C10 witness: the model answered "billing" and run returned escalate
C10_Witness ==
    \E t \in Threads :
        /\ result[t] # NoneObj
        /\ cls_content[t] = << "b","i","l","l","i","n","g" >>
        /\ query[t] \notin RiskQueries
        /\ result[t].category = escalate

-----------------------------------------------------------------------------
(* C11: one index and one instance under concurrent first calls *)

\* The callers that hold a pipeline, and those that hold a workflow
PipelineHolders == { t \in Threads : pipeline[t] # None }
WorkflowHolders == { t \in Threads : workflow[t] # None }

\* C11: whatever the interleaving of the first calls of get_rag_pipeline and
\* get_workflow, the vector index is built at most once in the process and
\* all callers hold the same pipeline and the same workflow.
C11_BuiltOnceAndShared ==
    /\ index_builds <= 1
    /\ \A t, u \in PipelineHolders : pipeline[t] = pipeline[u]
    /\ \A t, u \in WorkflowHolders : workflow[t] = workflow[u]

-----------------------------------------------------------------------------
(* C12: concurrent invocations do not interfere *)

\* What an invocation works on
Locals(t) ==
    << query[t], history[t], state[t], cls_content[t], docs_with_scores[t],
       prompt[t], answer[t], result[t] >>

\* What run returns for the invocation's own query and the answers its own
\* calls received, whatever else goes on in the process
SoloCategory(t) ==
    IF query[t] \in RiskQueries THEN escalate
    ELSE ExpectedCategory[cls_content[t]]
SoloResult(t) ==
    [category |-> SoloCategory(t),
     response |-> IF SoloCategory(t) = escalate THEN EscalationMessage
                  ELSE IF Unreliable(docs_with_scores[t], RELEVANCE_THRESHOLD)
                  THEN FallbackMessage
                  ELSE answer[t]]

\* The invocation met a pipeline that was not set up (rag_pipeline.py:206)
NotInitializedRaised(t) ==
    Invoked(t) /\ exc[t] # NoneObj /\ exc[t].type = "ValueError"

\* C12: in every interleaving of concurrent invocations each invocation has
\* the outcome it has when it runs alone. One that returns returns what its
\* own query and its own calls' answers give. One that runs alone meets a
\* pipeline that is not set up only after a setup that failed, and such a
\* pipeline is never set up later: so the pipeline an invocation found not
\* set up is still not set up.
C12_OutcomeAsAlone ==
    \A t \in Threads :
        /\ (Invoked(t) /\ pc[t] = "return") => result[t] = SoloResult(t)
        /\ NotInitializedRaised(t) => heap[pipeline[t]].llm = None

\* The part of C12 that holds in every interleaving: a step of one thread
\* leaves the query, history, category, response and result of the other
\* invocations as they were, and an invocation that returns returns what its
\* own query and its own calls' answers give.
ConcurrentRunsIsolated ==
    /\ [][\A u \in Threads : pc'[u] = pc[u] => Locals(u)' = Locals(u)]_vars
    /\ [](\A t \in Threads : (Invoked(t) /\ pc[t] = "return") =>
                                 result[t] = SoloResult(t))

-----------------------------------------------------------------------------
(* C13: the threshold judges the batch, not the candidates *)

\* The texts of all the candidates, best first, a blank line between them
RECURSIVE AllContents(_)
AllContents(dws) ==
    IF dws = << >> THEN << >>
    ELSE IF Len(dws) = 1 THEN dws[1].page_content
    ELSE dws[1].page_content \o << "\n","\n" >> \o AllContents(Tail(dws))

\* The answer model has been asked for this invocation
Generating(t) == Invoked(t) /\ calls[t].generate_llm = 1

\* C13: when the search result is judged reliable, the context given to the
\* answer model is made of every candidate the search returned, in the
\* search's order, the candidates whose own score is below the threshold
\* included: the threshold accepts or rejects the batch as a whole.
C13_WholeBatchPassedOn ==
    \A t \in Threads :
        Generating(t) =>
            /\ has_reliable_context[t]
            /\ prompt[t].context = AllContents(docs_with_scores[t])

\* C13 witness: a batch led by a score of 40 was accepted and its second
\* candidate, of score 39, is in the context
C13_Witness ==
    \E t \in Threads :
        /\ Generating(t)
        /\ Len(docs_with_scores[t]) = 2
        /\ docs_with_scores[t][1].score = RELEVANCE_THRESHOLD
        /\ docs_with_scores[t][2].score = 39
        /\ Contains(prompt[t].context, docs_with_scores[t][2].page_content)

-----------------------------------------------------------------------------
(* C14: operations on a pipeline that was not set up *)

\* module answer_with_rag has called pipeline.answer_with_rag on the
\* pipeline it got, and the call is over
AnswerCalled(t) ==
    /\ Invoked(t)
    /\ pipeline[t] # None
    /\ pc[t] \notin { "answer_with_rag", "idle" }

\* The pipeline lacks its index or its model
NotSetUp(p) == p.vectorstore = None \/ p.llm = None

-----------------------------------------------------------------------------
(* C15: the response of a run that returns *)

\* C15: every run that returns without raising returns a response that is
\* not the empty string, whether the escalation message, the fallback
\* message or the answer model's text.
C15_ResponseNonEmpty ==
    \A t \in Threads :
        (Invoked(t) /\ pc[t] = "return") => result[t].response # << >>

-----------------------------------------------------------------------------
(* C16: the same query and history give the same result *)

\* C16: with collaborators that give the same reply to the same input, an
\* invocation of run returns the {response, category} that the first
\* invocation with the same query and history returned, whatever other
\* invocations ran in between.
C16_SameInputsSameResult ==
    \A t \in Threads : \A r \in returned :
        (Invoked(t) /\ pc[t] = "return"
            /\ r.query = query[t] /\ r.history = history[t]) =>
                result[t] = r.result

\* C16 witness: a question with one turn of history is answered by the
\* model a second time, after invocations with other inputs have returned
C16_Witness ==
    \E t \in Threads : \E r \in returned :
        /\ Invoked(t) /\ pc[t] = "return"
        /\ r.query = query[t] /\ r.history = history[t]
        /\ history[t] # << >>
        /\ calls[t].generate_llm = 1
        /\ Cardinality(returned) >= 3

-----------------------------------------------------------------------------
(* C17: the caller's history is only read *)

\* What a RAGPipeline object can hold: the handles setup_rag_chain stores
PipelineObjects ==
    [vectorstore : { None, "Chroma" }, retriever : { None, "retriever" },
     rag_chain : { None }, llm : { None, "ChatGoogleGenerativeAI" },
     prompt : { None, "PromptTemplate" }]

\* The process-wide state holds the two singletons and their handles, and
\* nothing of any invocation
NothingKept ==
    /\ _workflow \in Threads \cup { None }
    /\ _rag_pipeline \in Threads \cup { None }
    /\ \A o \in Threads : heap[o] = NoneObj \/ heap[o] \in PipelineObjects

\* From the call to the end of the invocation the caller's list is the same
HistoryUntouched ==
    \A t \in Threads :
        (pc[t] # "idle" /\ pc'[t] # "idle") => history'[t] = history[t]

\* C17: run leaves the caller's history list and each of its turns as they
\* were, and the process-wide state (the two singletons) holds no reference
\* to them or copy of them at any time, so none after run has returned.
C17_HistoryReadOnly == [][HistoryUntouched]_vars /\ []NothingKept

\* C17 witness: run has returned for a history longer than the four turns
\* it reads
C17_Witness ==
    \E t \in Threads :
        /\ Invoked(t) /\ pc[t] = "return"
        /\ Len(history[t]) > HistoryWindow
        /\ state[t].history = FormatHistory(history[t])

-----------------------------------------------------------------------------
(* C18: the direct endpoint *)

Direct(t) == entry[t] = "chat_direct"

\* C18: a request to the direct endpoint never runs the classifier (no
\* classification call, no category, no routing); the Answer Generator is
\* called with the request's query and with the history rendered from the
\* last four turns by the rule run uses; and the reply that is sent has the
\* answer as its response and 'direct' as its category, whatever the query
\* contains.
C18_DirectSkipsClassifier ==
    \A t \in Threads :
        Direct(t) =>
            /\ calls[t].classify_llm = 0
            /\ state[t] = NoState /\ route[t] = None
            /\ rag_question[t] = query[t]
            /\ rag_history[t] = FormatHistory(history[t])
            /\ (calls[t].generate_llm = 1 =>
                    prompt[t].question =
                        EnhancedQuestion(query[t], FormatHistory(history[t])))
            /\ (pc[t] = "done" /\ exc[t] = NoneObj) =>
                    /\ http[t].status = 200
                    /\ http[t].category = direct
                    /\ http[t].response = answer[t]

\* C18 witness: a query with an escalation keyword and five turns of history
\* was answered by the answer model on the direct endpoint
C18_Witness ==
    \E t \in Threads :
        /\ Direct(t) /\ pc[t] = "done" /\ exc[t] = NoneObj
        /\ query[t] \in RiskQueries
        /\ Len(history[t]) = MaxHist
        /\ calls[t].generate_llm = 1
        /\ http[t].category = direct

-----------------------------------------------------------------------------
(* C19: the order of the stages *)

\* The positions of an invocation inside the graph, in the order of the
\* code; a step inside the graph moves to a later one or raises
Rank ==
    [p \in { "classifier", "route_query", "escalation_handler",
             "rag_responder", "get_rag_pipeline", "RAGPipeline",
             "setup_rag_chain", "setup_rag_chain_llm", "answer_with_rag",
             "answer_with_rag_gate", "rag_responder_return", "END" } |->
        CASE p = "classifier" -> 1
          [] p = "route_query" -> 2
          [] p = "escalation_handler" -> 3
          [] p = "rag_responder" -> 4
          [] p = "get_rag_pipeline" -> 5
          [] p = "RAGPipeline" -> 6
          [] p = "setup_rag_chain" -> 7
          [] p = "setup_rag_chain_llm" -> 8
          [] p = "answer_with_rag" -> 9
          [] p = "answer_with_rag_gate" -> 10
          [] p = "rag_responder_return" -> 11
          [] p = "END" -> 12]

Responders == { "rag_responder", "escalation_handler" }

\* The stages run so far are the classifier alone or the classifier and then
\* one responder, the one its category asks for
StagesInOrder(t) ==
    /\ Len(nodes[t]) <= 2
    /\ Len(nodes[t]) >= 1 => nodes[t][1] = "classifier"
    /\ Len(nodes[t]) = 2 =>
          /\ nodes[t][2] \in Responders
          /\ state[t].category \in CategorySet
          /\ nodes[t][2] = "escalation_handler" <=> state[t].category = escalate
    /\ pc[t] \in { "get_workflow", "ChatbotWorkflow", "get_workflow_return",
                   "run", "classifier" } => nodes[t] = << >>
    /\ pc[t] \in { "END", "return" } => Len(nodes[t]) = 2

\* Every step inside the graph moves on, so the graph reaches END or raises
\* after at most eleven steps
StagesMoveOn ==
    \A t \in Threads :
        (Invoked(t) /\ pc[t] \in DOMAIN Rank \ { "END" } /\ pc'[t] # pc[t]) =>
            \/ pc'[t] = "raise"
            \/ pc'[t] \in DOMAIN Rank /\ Rank[pc'[t]] > Rank[pc[t]]

\* The run is over: it returned or it raised
RunOver(t) == Invoked(t) /\ pc[t] \in { "return", "raise" }

\* C19: every run executes the classifier once and first, then exactly one
\* of rag_responder and escalation_handler, and then ends: no stage runs
\* after a responder, no responder runs before the classifier has set the
\* category, and a run that is over has run the classifier and one
\* responder.
C19_ClassifierThenOneResponder ==
    \A t \in Threads :
        /\ Invoked(t) => StagesInOrder(t)
        /\ RunOver(t) => Len(nodes[t]) = 2

\* The part of C19 that holds: the stages that run do so in the order
\* classifier, one responder, end, and every step leads on towards the end
\* of the graph
StagesOrdered ==
    /\ [](\A t \in Threads : Invoked(t) => StagesInOrder(t))
    /\ [][StagesMoveOn]_vars

-----------------------------------------------------------------------------
(* C20: no retries *)

\* C20: a run calls the classification model at most once and the answer
\* model at most once, and a call that fails is not repeated: the exception
\* is raised out of the run at once, after that one call.
C20_NoRetries ==
    \A t \in Threads :
        Invoked(t) =>
            /\ calls[t].classify_llm <= 1
            /\ calls[t].generate_llm <= 1
            /\ ClassifierFailed(t) =>
                  /\ calls[t].classify_llm = 1
                  /\ pc[t] \in { "raise", "done" }
            /\ GenerationFailed(t) =>
                  /\ calls[t].generate_llm = 1
                  /\ pc[t] \in { "raise", "done" }

\* C20 witness: the one call of the classification model failed and the run
\* has raised
C20_Witness ==
    \E t \in Threads :
        /\ Invoked(t) /\ pc[t] = "raise"
        /\ ClassifierFailed(t)
        /\ calls[t].classify_llm = 1

-----------------------------------------------------------------------------
(* C21: what the answer model is given and what comes back *)

\* The answer model has been asked, whichever endpoint or caller it was for
Asked(t) == calls[t].generate_llm = 1

\* The question of a prompt made from question q and history text h
QuestionInPrompt(q, h) ==
    IF Len(h) = 0 THEN q
    ELSE ConversationHistoryPrefix \o h \o CurrentQuestionPrefix \o q

\* C21: on the reliable path the context given to the answer model is the
\* contents of all the retrieved chunks, in ranked order, joined by a blank
\* line; the question in the prompt is the bare question when the history
\* text is empty and the history followed by the current question when it is
\* not; and what answer_with_rag returns is the model's text, unchanged.
C21_PromptAndAnswer ==
    \A t \in Threads :
        Asked(t) =>
            /\ prompt[t].context = AllContents(docs_with_scores[t])
            /\ prompt[t].question =
                   QuestionInPrompt(rag_question[t], rag_history[t])
            /\ answer[t] = gen_content[t]

\* C21 witness: two chunks and a history went into the prompt and the model's
\* text came back
C21_Witness ==
    \E t \in Threads :
        /\ Asked(t)
        /\ pc[t] \in { "rag_responder_return", "chat_direct_return" }
        /\ Len(docs_with_scores[t]) = 2
        /\ rag_history[t] # << >>
        /\ Len(prompt[t].question) > Len(rag_question[t])
        /\ gen_content[t] # << >>
        /\ answer[t] = gen_content[t]

-----------------------------------------------------------------------------
(* C22: classification does not depend on the history *)

\* The history text of the invocation holds a risk keyword
RiskInHistory(t) ==
    \E k \in Elements(out_of_scope_keywords) :
        Contains(state[t].history, k)

\* C22: with a classification model that gives the same reply to the same
\* input, the category of an invocation is the category that an earlier
\* invocation with the same query got, whatever the two histories are, a
\* history whose turns hold an escalation keyword included.
C22_CategoryIgnoresHistory ==
    \A t \in Threads : \A r \in returned :
        (Classified(t) /\ r.query = query[t]) =>
            state[t].category = r.result.category

\* C22 witness: a query without a risk keyword is classified as products by
\* the model although its history holds the keyword "sue"; the same query
\* returned before with another history
C22_Witness ==
    \E t \in Threads : \E r \in returned :
        /\ Classified(t)
        /\ r.query = query[t]
        /\ r.history # history[t]
        /\ RiskInHistory(t)
        /\ calls[t].classify_llm = 1
        /\ state[t].category = products

-----------------------------------------------------------------------------
(* C23: the rendering of the history and its way to the answer generator *)

\* The turns that are rendered: the last four
RenderedTurns(h) == SubSeq(h, IF Len(h) > 4 THEN Len(h) - 3 ELSE 1, Len(h))

\* The lines of the turns, a newline between two lines
RECURSIVE RenderTurns(_)
RenderTurns(h) ==
    IF h = << >> THEN << >>
    ELSE IF Len(h) = 1 THEN TurnLine(h[1])
    ELSE TurnLine(h[1]) \o << "\n" >> \o RenderTurns(Tail(h))

\* rag_responder has called answer_with_rag for a run of the workflow
Responding(t) ==
    /\ Invoked(t)
    /\ \E i \in DOMAIN nodes[t] : nodes[t][i] = "rag_responder"

\* C23: each rendered turn of the history is the line "User: <text>" when
\* its sender is "user" and "Bot: <text>" when its sender is "bot", the lines
\* are joined by single newlines, and the string that answer_with_rag gets
\* from rag_responder is this string, unchanged; no history, or an empty
\* one, gives the empty string.
C23_HistoryRenderedAndPassedOn ==
    \A t \in Threads :
        /\ StateBuilt(t) =>
               state[t].history = RenderTurns(RenderedTurns(history[t]))
        /\ Responding(t) =>
               rag_history[t] = RenderTurns(RenderedTurns(history[t]))

\* C23 witness: a history with a user turn and a bot turn has reached
\* answer_with_rag as two lines
C23_Witness ==
    \E t \in Threads :
        /\ Responding(t)
        /\ Len(history[t]) = 2
        /\ history[t][1].sender = "user"
        /\ history[t][2].sender = "bot"
        /\ rag_history[t] =
               << "U","s","e","r",":"," " >> \o history[t][1].text
                   \o << "\n" >>
                   \o << "B","o","t",":"," " >> \o history[t][2].text

-----------------------------------------------------------------------------
(* C24: a missing knowledge-base file *)

\* The setup the thread ran has failed on the missing file
FileMissing(t) ==
    /\ exc[t] # NoneObj
    /\ exc[t].type = "FileNotFoundError"

\* C24: when the knowledge-base file is missing, setup fails with the
\* not-found error out of load_documents, its first call: no chunking and no
\* construction of the index were attempted, and the vector store and the
\* model of that pipeline are unset and stay so.
C24_MissingFileFailsFirst ==
    \A t \in Threads :
        FileMissing(t) =>
            /\ exc[t].where = "load_documents"
            /\ setup_calls[t] = << "load_documents" >>
            /\ index_builds = 0
            /\ heap[setup_self[t]].vectorstore = None
            /\ heap[setup_self[t]].llm = None

\* C24 witness: the start-up of the server, or the first query of the
\* script, has failed on the missing file
C24_Witness ==
    \E t \in Threads :
        /\ FileMissing(t)
        /\ pc[t] = "done"
        /\ setup_self[t] = _rag_pipeline
        /\ heap[_rag_pipeline] = NewPipeline

-----------------------------------------------------------------------------
(* C25: a failed initialisation is not retried *)

\* Where a thread is while it creates and sets up a pipeline
SettingUp == { "RAGPipeline", "setup_rag_chain", "setup_rag_chain_llm" }

\* A setup of the process has failed: a pipeline object exists that lacks
\* its index or its model, and no thread is setting one up
SetupHasFailed ==
    /\ \E o \in Threads : heap[o] # NoneObj /\ NotSetUp(heap[o])
    /\ \A t \in Threads : pc[t] \notin SettingUp

\* No step begins a setup, loads the knowledge base or builds the index
NoSetupStep ==
    /\ \A t \in Threads :
          /\ pc'[t] \notin SettingUp
          /\ setup_calls'[t] \in { setup_calls[t], << >> }
    /\ index_builds' = index_builds
    /\ heap' = heap

\* C25: once a setup of the pipeline has failed, no later call of
\* get_rag_pipeline or answer_with_rag in the same process attempts it
\* again: the knowledge base is not loaded and the index is not built
\* another time.
C25_FailedSetupNotRetried ==
    [][SetupHasFailed => NoSetupStep]_vars

\* C25 witness: after the failed setup a later query of the script has
\* called get_rag_pipeline and got the pipeline without any setup call
C25_Witness ==
    \E t \in Threads :
        /\ SetupHasFailed
        /\ entry[t] = "demo"
        /\ pipeline[t] # None
        /\ setup_self[t] = None
        /\ setup_calls[t] = << >>

-----------------------------------------------------------------------------
(* C26: what get_rag_pipeline returns *)

\* C26: every pipeline object that get_rag_pipeline has returned to a caller
\* has completed its setup: its vector store and its model are both set.
C26_ReturnedPipelineIsSetUp ==
    \A t \in Threads :
        pipeline[t] # None => ~NotSetUp(heap[pipeline[t]])

-----------------------------------------------------------------------------
(* C27: what an escalated run leaves alone *)

\* The run has been classified as escalate
Escalated(t) == Classified(t) /\ state[t].category = escalate

\* C27: a run whose category is escalate does not ask for the pipeline, sets
\* up no index, makes no similarity search and no call of the answer model;
\* a run whose query matched a keyword makes no external call at all, the
\* classification model included.
C27_EscalateTouchesNothing ==
    \A t \in Threads :
        Escalated(t) =>
            /\ pipeline[t] = None
            /\ setup_self[t] = None
            /\ setup_calls[t] = << >>
            /\ calls[t].search = 0
            /\ calls[t].generate_llm = 0
            /\ query[t] \in RiskQueries => calls[t] = NoCalls

\* C27 witness: a run that the model classified as escalate has returned the
\* escalation message in a process whose pipeline was never created
C27_Witness ==
    \E t \in Threads :
        /\ Escalated(t)
        /\ pc[t] = "return"
        /\ calls[t].classify_llm = 1
        /\ result[t].response = EscalationMessage
        /\ _rag_pipeline = None
        /\ index_builds = 0

-----------------------------------------------------------------------------
(* C28: retrieval does not depend on the history *)

\* answer_with_rag has returned for a run of the workflow
Answered(t) ==
    /\ Invoked(t)
    /\ Retrieved(t)
    /\ exc[t] = NoneObj
    /\ pc[t] \notin { "answer_with_rag_gate" }

\* C28: with an index that gives the same candidates for the same search
\* text, the search is made with the current question alone: the candidates
\* of an invocation are those the index gave for that question, the verdict
\* is made from them alone, and the invocation gets the fallback message
\* exactly if an earlier invocation with the same question did, whatever
\* the two history texts are.
C28_RetrievalIgnoresHistory ==
    \A t \in Threads :
        /\ (Invoked(t) /\ Retrieved(t)) =>
              /\ \E m \in oracle.search :
                    /\ m.input = rag_question[t]
                    /\ m.reply = Success(docs_with_scores[t])
              /\ has_reliable_context[t] =
                     ~Unreliable(docs_with_scores[t], RELEVANCE_THRESHOLD)
        /\ Answered(t) =>
              /\ (answer[t] = FallbackMessage) = ~has_reliable_context[t]
              /\ \A r \in returned :
                    r.query = query[t] =>
                        ((answer[t] = FallbackMessage)
                             = (r.result.response = FallbackMessage))

\* C28 witness: a question asked with a history got the fallback message,
\* as it did before when it was asked without one
C28_Witness ==
    \E t \in Threads : \E r \in returned :
        /\ Answered(t)
        /\ r.query = query[t]
        /\ r.history = << >>
        /\ rag_history[t] # << >>
        /\ r.result.response = FallbackMessage
        /\ answer[t] = FallbackMessage

====
